---- MODULE Spec2Model ----
(***************************************************************************)
(* devlog-cli: a model of the git history reader (git.ts), the summarizer  *)
(* (copilot.ts) and the command dispatcher (index.ts).                     *)
(*                                                                         *)
(* Text is a sequence of one-character strings ("\n" newline, "\r"         *)
(* carriage return, "ESC" the character \x1B).  A commit date is the ISO   *)
(* timestamp git prints: a wall-clock reading `wall` and the distance      *)
(* `off` of that clock behind the clock of the machine devlog runs on,     *)
(* both counted in units of 1/UnitsPerDay of a day.                        *)
(***************************************************************************)
EXTENDS Integers, Sequences, FiniteSets, TLC

VARIABLES
    pc,                \* position of the running call or command
    log,               \* git.ts: entries of the git log result (log.all)
    noParent,          \* git.ts: hashes whose `hash~1..hash` diff query fails
    commits,           \* CommitInfo[] returned by the reader
    groups,            \* CommitGroup[] returned by groupCommitsByDate
    repo,              \* git.ts: what the git calls meet in the working directory
    tag,               \* tag label returned by getCommitsSinceTag
    repoName,          \* name returned by getRepoName
    call,              \* copilot.ts: the operation that is called
    yesterdayCommits,  \* the first commit list of the standup operations
    proc,              \* behaviour of the spawned `gh copilot` child process
    result,            \* value the called operation returned
    raised,            \* whether the called operation rejected
    execCalls,         \* the execFile invocations issued, in order
    cmd,               \* index.ts: the subcommand that runs
    options,           \* its flags: ai (false with --no-ai), json, output
    range,             \* the <range> argument of recap
    parts,             \* range.split('..') once validated: <<from, to>>
    config,            \* the loaded configuration
    copilotAvailable,  \* result of the availability probe
    spinner,           \* the git-reading spinner
    aiSpinner,         \* the AI spinner
    aiSummary,         \* the summary text of the command
    printed,           \* what the command printed, in order
    exported,          \* the documents handed to the markdown / JSON export
    exitCode,          \* exit status of the process, -1 while it runs
    gitQueries,        \* number of reader calls issued
    settled,           \* reader calls of the Promise.all that have fulfilled
    invoked,           \* operations the command has invoked, in order
    files              \* config.ts: the candidate config files on disk

gitVars == <<log, noParent, groups, repo, tag, repoName>>
aiVars == <<call, yesterdayCommits, proc, result, raised, execCalls>>
cmdVars == <<cmd, options, range, parts, config, copilotAvailable, spinner,
             aiSpinner, aiSummary, printed, exported, exitCode, gitQueries,
             settled, invoked, files>>
vars == <<pc, commits, gitVars, aiVars, cmdVars>>

---------------------------------------------------------------------------
(* Bounds of the model *)

MaxCommits == 3
MaxWall == 5
UnitsPerDay == 2

---------------------------------------------------------------------------
(* String primitives of the JavaScript runtime, on character sequences *)

StartsWith(s, p) == Len(p) <= Len(s) /\ SubSeq(s, 1, Len(p)) = p

\* String.prototype.indexOf: 0-based index of the first occurrence, or -1
IndexOf(s, p) ==
    LET hits == {i \in 0..(Len(s) - Len(p)) : SubSeq(s, i + 1, i + Len(p)) = p}
    IN IF hits = {} THEN -1 ELSE CHOOSE i \in hits : \A j \in hits : i <= j

Includes(s, p) == IndexOf(s, p) # -1

Substring(s, a, b) == SubSeq(s, a + 1, b)

UpperLetters == <<"A","B","C","D","E","F","G","H","I","J","K","L","M",
                  "N","O","P","Q","R","S","T","U","V","W","X","Y","Z">>
LowerLetters == <<"a","b","c","d","e","f","g","h","i","j","k","l","m",
                  "n","o","p","q","r","s","t","u","v","w","x","y","z">>

LowerChar(c) ==
    IF \E i \in 1..26 : UpperLetters[i] = c
    THEN LowerLetters[CHOOSE i \in 1..26 : UpperLetters[i] = c]
    ELSE c

ToLowerCase(s) == [i \in 1..Len(s) |-> LowerChar(s[i])]

IsLetter(c) == \E i \in 1..26 : UpperLetters[i] = c \/ LowerLetters[i] = c

WhiteSpace == {" ", "\n", "\r", "\t"}

\* String.prototype.trim
Trim(s) ==
    LET keep == {i \in 1..Len(s) : s[i] \notin WhiteSpace}
    IN IF keep = {} THEN <<>>
       ELSE SubSeq(s, CHOOSE i \in keep : \A j \in keep : i <= j,
                      CHOOSE i \in keep : \A j \in keep : i >= j)

\* String.prototype.split(separator): cut at each occurrence, left to right
RECURSIVE Split(_, _)
Split(s, sep) ==
    IF IndexOf(s, sep) = -1 THEN <<s>>
    ELSE <<Substring(s, 0, IndexOf(s, sep))>>
         \o Split(Substring(s, IndexOf(s, sep) + Len(sep), Len(s)), sep)

---------------------------------------------------------------------------
(* git.ts *)

\* new Date(date).getTime(): the instant, on the machine's clock
GetTime(date) == date.wall + date.off

\* format(parseISO(date), 'yyyy-MM-dd'): the machine-local calendar day
DateKey(date) == GetTime(date) \div UnitsPerDay

\* getCommitDiff: the stat of hash~1..hash, or empty when the query throws
GetCommitDiff(np, entry) ==
    IF entry.hash \in np
    THEN [diff |-> <<>>, files |-> <<>>]
    ELSE [diff |-> entry.stat, files |-> entry.files]

\* parseLogResult: one CommitInfo per log entry, in log order
RECURSIVE ParseLogResultSkipping(_, _)
ParseLogResultSkipping(np, entries) ==
    IF entries = <<>> THEN <<>>
    ELSE LET entry == Head(entries)
         IN (IF entry.hash \in np THEN <<>>
             ELSE <<[hash |-> entry.hash, date |-> entry.date,
                     message |-> entry.message,
                     filesChanged |-> entry.files, diff |-> entry.stat]>>)
            \o ParseLogResultSkipping(np, Tail(entries))

RECURSIVE ParseLogResult(_, _)
ParseLogResult(np, entries) ==
    IF entries = <<>> THEN <<>>
    ELSE LET entry == Head(entries)
             d == GetCommitDiff(np, entry)
         IN <<[hash |-> entry.hash, date |-> entry.date,
               message |-> entry.message,
               filesChanged |-> d.files, diff |-> d.diff]>>
            \o ParseLogResult(np, Tail(entries))

\* groupCommitsByDate, first loop: the insertion-ordered Map dateKey -> commits
GroupPushFront(gs, c) ==
    LET k == DateKey(c.date)
    IN IF \E i \in 1..Len(gs) : gs[i].key = k
       THEN [i \in 1..Len(gs) |->
                IF gs[i].key = k
                THEN [gs[i] EXCEPT !.commits = <<c>> \o @]
                ELSE gs[i]]
       ELSE Append(gs, [key |-> k, commits |-> <<c>>])

GroupPush(gs, c) ==
    LET k == DateKey(c.date)
    IN IF \E i \in 1..Len(gs) : gs[i].key = k
       THEN [i \in 1..Len(gs) |->
                IF gs[i].key = k
                THEN [gs[i] EXCEPT !.commits = Append(@, c)]
                ELSE gs[i]]
       ELSE Append(gs, [key |-> k, commits |-> <<c>>])

RECURSIVE GroupInto(_, _)
GroupInto(cs, gs) ==
    IF cs = <<>> THEN gs ELSE GroupInto(Tail(cs), GroupPush(gs, Head(cs)))

\* second loop: label of the first commit's day, and the commits
ToCommitGroups(gs) ==
    [i \in 1..Len(gs) |->
        [label |-> DateKey(gs[i].commits[1].date), commits |-> gs[i].commits]]

\* the sort comparator: (a, b) => time(b.commits[0]) - time(a.commits[0])
CompareGroupsAscending(a, b) ==
    GetTime(a.commits[1].date) - GetTime(b.commits[1].date)

CompareGroups(a, b) ==
    GetTime(b.commits[1].date) - GetTime(a.commits[1].date)

\* Array.prototype.sort: stable, by the comparator
RECURSIVE InsertGroup(_, _)
InsertGroup(sorted, g) ==
    IF sorted = <<>> THEN <<g>>
    ELSE LET last == sorted[Len(sorted)]
         IN IF CompareGroups(last, g) <= 0
            THEN Append(sorted, g)
            ELSE Append(InsertGroup(SubSeq(sorted, 1, Len(sorted) - 1), g), last)

RECURSIVE SortGroups(_, _)
SortGroups(sorted, rest) ==
    IF rest = <<>> THEN sorted
    ELSE SortGroups(InsertGroup(sorted, Head(rest)), Tail(rest))

GroupCommitsByDate(cs) == SortGroups(<<>>, ToCommitGroups(GroupInto(cs, <<>>)))

\* what a git call meets: isRepo is the answer of checkIsRepo; `failing` holds
\* the reader calls whose own git command is rejected; describe and remote
\* are the outcomes of `git describe --tags --abbrev=0` and `git remote
\* get-url origin`; sinceTag is the number of log entries in tag..HEAD; root
\* is the output of `git rev-parse --show-toplevel`
NotARepoMessage ==
    "Not a git repository. Please run devlog from inside a git repository."
InitialTag == <<"(", "i", "n", "i", "t", "i", "a", "l", ")">>
DotGit == <<".", "g", "i", "t">>
UnknownName == <<"u", "n", "k", "n", "o", "w", "n">>
Rejected == [ok |-> FALSE, stdout |-> <<>>]
PlainRepo ==
    [isRepo |-> TRUE, failing |-> {}, describe |-> Rejected, sinceTag |-> 0,
     remote |-> Rejected, root |-> <<"/", "w", "\n">>]

\* getGit: rejects with the not-a-repository error unless checkIsRepo holds
GetGitUnchecked(r) == [raised |-> FALSE, message |-> ""]

GetGit(r) ==
    IF r.isRepo THEN [raised |-> FALSE, message |-> ""]
    ELSE [raised |-> TRUE, message |-> NotARepoMessage]

\* getCommitsSinceTag: the describe call decides between the whole log with
\* the '(initial)' label and the log of tag..HEAD with the trimmed tag
GetCommitsSinceTagFailing(r, np, entries) ==
    IF ~GetGit(r).raised /\ ~r.describe.ok
    THEN [raised |-> TRUE, message |-> "describe", tag |-> <<>>, commits |-> <<>>]
    ELSE [raised |-> GetGit(r).raised, message |-> GetGit(r).message,
          tag |-> IF GetGit(r).raised THEN <<>> ELSE Trim(r.describe.stdout),
          commits |-> IF GetGit(r).raised THEN <<>>
                      ELSE ParseLogResult(np, SubSeq(entries, 1, r.sinceTag))]

GetCommitsSinceTag(r, np, entries) ==
    IF GetGit(r).raised
    THEN [raised |-> TRUE, message |-> GetGit(r).message,
          tag |-> <<>>, commits |-> <<>>]
    ELSE IF ~r.describe.ok
    THEN [raised |-> FALSE, message |-> "",
          tag |-> InitialTag, commits |-> ParseLogResult(np, entries)]
    ELSE [raised |-> FALSE, message |-> "",
          tag |-> Trim(r.describe.stdout),
          commits |-> ParseLogResult(np, SubSeq(entries, 1, r.sinceTag))]

\* the regex /\/([^/]+?)(\.git)?$/: the leftmost '/' from which a shortest
\* run of k >= 1 characters other than '/' reaches the end of the text,
\* directly or through '.git'; the first capture is that run
RepoMatchAt(s, i, k) ==
    /\ s[i] = "/"
    /\ \A j \in (i + 1)..(i + k) : s[j] # "/"
    /\ SubSeq(s, i + k + 1, Len(s)) \in {<<>>, DotGit}
RepoMatch(s) ==
    LET starts == {i \in 1..Len(s) : \E k \in 1..(Len(s) - i) : RepoMatchAt(s, i, k)}
    IN IF starts = {} THEN [matched |-> FALSE, name |-> <<>>]
       ELSE LET i == CHOOSE x \in starts : \A y \in starts : x <= y
                k == CHOOSE x \in 1..(Len(s) - i) :
                        /\ RepoMatchAt(s, i, x)
                        /\ \A y \in 1..(x - 1) : ~RepoMatchAt(s, i, y)
            IN [matched |-> TRUE, name |-> SubSeq(s, i + 1, i + k)]

\* root.trim().split('/').pop() || 'unknown'
BaseName(root) ==
    LET segments == Split(Trim(root), <<"/">>)
    IN IF segments[Len(segments)] = <<>> THEN UnknownName
       ELSE segments[Len(segments)]

\* getRepoName: the capture of the trimmed origin URL, else the root's name
GetRepoName(r) ==
    IF GetGit(r).raised
    THEN [raised |-> TRUE, message |-> GetGit(r).message, name |-> <<>>]
    ELSE IF r.remote.ok /\ r.remote.stdout # <<>>
            /\ RepoMatch(Trim(r.remote.stdout)).matched
    THEN [raised |-> FALSE, message |-> "",
          name |-> RepoMatch(Trim(r.remote.stdout)).name]
    ELSE [raised |-> FALSE, message |-> "", name |-> BaseName(r.root)]

---------------------------------------------------------------------------
(* The reader and the grouper, run on every bounded git log *)

NoProc == [outcome |-> "none", stdout |-> <<>>]

AiIdle ==
    /\ call = "none"
    /\ yesterdayCommits = <<>>
    /\ proc = NoProc
    /\ result = <<>>
    /\ raised = FALSE
    /\ execCalls = <<>>

NoOptions == [ai |-> TRUE, json |-> FALSE, output |-> FALSE]

\* config.ts.  A candidate file is missing, or cannot be read, or holds text
\* JSON.parse rejects, or holds a JSON value whose own keys are `value` (no
\* key for null, a number or the empty object)
DefaultConfig ==
    [format |-> "terminal", useCopilot |-> TRUE, author |-> "undefined",
     showFiles |-> TRUE, showStats |-> TRUE, maxCommits |-> 100]
NoKeys == [k \in {} |-> TRUE]
Missing == [state |-> "missing", value |-> NoKeys]
Unreadable == [state |-> "unreadable", value |-> NoKeys]
Invalid == [state |-> "invalid", value |-> NoKeys]
Json(v) == [state |-> "json", value |-> v]

\* searchPaths: .devlogrc and .devlogrc.json of the working directory, then
\* of the home directory
SearchPathsHomeFirst ==
    <<"home/.devlogrc", "home/.devlogrc.json", "cwd/.devlogrc", "cwd/.devlogrc.json">>
SearchPaths ==
    <<"cwd/.devlogrc", "cwd/.devlogrc.json", "home/.devlogrc", "home/.devlogrc.json">>
NoFiles == [path \in {SearchPaths[i] : i \in 1..Len(SearchPaths)} |-> Missing]

\* { ...DEFAULT_CONFIG, ...userConfig }
Merge(defaults, user) ==
    [k \in (DOMAIN defaults) \cup (DOMAIN user) |->
        IF k \in DOMAIN user THEN user[k] ELSE defaults[k]]

\* loadConfig: the first candidate that exists, is read and is parsed (a
\* throw of readFileSync or JSON.parse lands in the empty catch), merged over
\* the defaults
RECURSIVE LoadFrom(_, _)
LoadFrom(fs, paths) ==
    IF paths = <<>> THEN DefaultConfig
    ELSE IF fs[Head(paths)].state = "json"
    THEN Merge(DefaultConfig, fs[Head(paths)].value)
    ELSE LoadFrom(fs, Tail(paths))

LoadConfig(fs) == [value |-> LoadFrom(fs, SearchPaths), raised |-> FALSE]

CmdQuiet ==
    /\ cmd = "none"
    /\ options = NoOptions
    /\ range = <<>>
    /\ parts = <<>>
    /\ config = DefaultConfig
    /\ copilotAvailable = FALSE
    /\ spinner = "none"
    /\ aiSpinner = "none"
    /\ aiSummary = <<>>
    /\ printed = <<>>
    /\ exported = <<>>
    /\ exitCode = -1
    /\ gitQueries = 0
    /\ settled = {}
    /\ invoked = <<>>

CmdIdle == CmdQuiet /\ files = NoFiles

Dates == [wall : 0..MaxWall, off : {0, 1}]

\* the log entry at position i has hash i: hashes identify commits
LogEntry(i, d) ==
    [hash |-> i, date |-> d, message |-> <<"m">>,
     stat |-> <<"1">>, files |-> <<<<"f">>>>]

\* the logs of n entries
Logs(n) == {[i \in 1..n |-> LogEntry(i, ds[i])] : ds \in [1..n -> Dates]}

InitGit ==
    /\ pc = "git"
    /\ \E n \in 0..MaxCommits : log \in Logs(n)
    /\ noParent \in {{}, {Len(log)}, {1}, 1..Len(log)}
    /\ commits = <<>>
    /\ groups = <<>>
    /\ repo = PlainRepo
    /\ tag = <<>>
    /\ repoName = <<>>
    /\ AiIdle
    /\ CmdIdle

\* getCommitsRange and its siblings: parseLogResult(git, log)
ReadLog ==
    /\ pc = "git"
    /\ commits' = ParseLogResult(noParent, log)
    /\ pc' = "read"
    /\ UNCHANGED <<log, noParent, groups, repo, tag, repoName, aiVars, cmdVars>>

\* groupCommitsByDate(commits)
GroupRead ==
    /\ pc = "read"
    /\ groups' = GroupCommitsByDate(commits)
    /\ pc' = "grouped"
    /\ UNCHANGED <<log, noParent, repo, tag, repoName, commits, aiVars, cmdVars>>

NextGit == ReadLog \/ GroupRead

SpecGit == InitGit /\ [][NextGit]_vars

---------------------------------------------------------------------------
(* Claims on the reader and the grouper *)

RECURSIVE Flatten(_)
Flatten(gs) == IF gs = <<>> THEN <<>> ELSE Head(gs).commits \o Flatten(Tail(gs))

Occurrences(s, x) == Cardinality({i \in 1..Len(s) : s[i] = x})

\* two dates whose instants fall within one day of the machine's calendar
SameLocalDay(d1, d2) ==
    \E day \in 0..(MaxWall + 1) :
        /\ day * UnitsPerDay <= d1.wall + d1.off
        /\ d1.wall + d1.off < (day + 1) * UnitsPerDay
        /\ day * UnitsPerDay <= d2.wall + d2.off
        /\ d2.wall + d2.off < (day + 1) * UnitsPerDay

\* C1: the groups returned by groupCommitsByDate contain exactly the input
\* commits (each in exactly one group), every group holds commits of one local
\* calendar day only, and the groups are in descending order of the date of
\* their first commit.
C1_GroupsPartitionByDayDescending ==
    pc = "grouped" =>
        /\ Len(Flatten(groups)) = Len(commits)
        /\ \A i \in 1..Len(commits) :
              /\ Occurrences(Flatten(groups), commits[i]) = 1
              /\ Cardinality({g \in 1..Len(groups) :
                    \E j \in 1..Len(groups[g].commits) :
                        groups[g].commits[j] = commits[i]}) = 1
        /\ \A g \in 1..Len(groups) :
              /\ groups[g].commits # <<>>
              /\ \A i, j \in 1..Len(groups[g].commits) :
                    SameLocalDay(groups[g].commits[i].date, groups[g].commits[j].date)
        /\ \A g, h \in 1..Len(groups) :
              g < h =>
                 groups[g].commits[1].date.wall + groups[g].commits[1].date.off
                 >= groups[h].commits[1].date.wall + groups[h].commits[1].date.off

C1_Witness ==
    /\ pc = "grouped"
    /\ Len(commits) = 3
    /\ Len(groups) = 2
    /\ Len(groups[1].commits) = 2
    /\ groups[1].commits[1] = commits[2]
    /\ groups[2].commits[1] = commits[1]

PositionInLog(h) == CHOOSE i \in 1..Len(log) : log[i].hash = h

\* C2: the reader returns the commits in log order, and two commits of one
\* group stand in the group in the order they have in the log: grouping
\* reorders whole groups only.
C2_OrderPreservedWithinDay ==
    /\ pc \in {"read", "grouped"} =>
          /\ Len(commits) = Len(log)
          /\ \A i \in 1..Len(log) : commits[i].hash = log[i].hash
                                     /\ commits[i].date = log[i].date
    /\ pc = "grouped" =>
          \A g \in 1..Len(groups) :
             \A i, j \in 1..Len(groups[g].commits) :
                i < j => PositionInLog(groups[g].commits[i].hash)
                         < PositionInLog(groups[g].commits[j].hash)

C2_Witness ==
    /\ pc = "grouped"
    /\ Len(log) = 3
    /\ Len(groups) = 2
    /\ groups[1].commits = <<commits[1], commits[3]>>
    /\ groups[2].commits = <<commits[2]>>
    /\ GetTime(commits[3].date) > GetTime(commits[1].date)

---------------------------------------------------------------------------
(* copilot.ts: the local fallback summarizer *)

FeatText == <<"f","e","a","t">>
AddText == <<"a","d","d">>
NewText == <<"n","e","w">>
FixText == <<"f","i","x">>
BugText == <<"b","u","g">>
PatchText == <<"p","a","t","c","h">>
FeaturesTitle == <<"F","e","a","t","u","r","e","s",":">>
FixesTitle == <<"F","i","x","e","s",":">>
OtherTitle == <<"O","t","h","e","r",":">>
BulletPrefix == <<" "," ","-"," ">>
NoCommitsText ==
    <<"N","o"," ","c","o","m","m","i","t","s"," ","f","o","u","n","d"," ",
      "i","n"," ","t","h","i","s"," ","p","e","r","i","o","d",".">>

\* the if / else if / else of the loop body: the bucket of one message
ClassifyFixFirst(message) ==
    LET msg == ToLowerCase(message)
    IN IF StartsWith(msg, FixText) \/ Includes(msg, BugText) \/ Includes(msg, PatchText)
       THEN "fixes"
       ELSE IF StartsWith(msg, FeatText) \/ Includes(msg, AddText) \/ Includes(msg, NewText)
            THEN "features"
            ELSE "other"

Classify(message) ==
    LET msg == ToLowerCase(message)
    IN IF StartsWith(msg, FeatText) \/ Includes(msg, AddText) \/ Includes(msg, NewText)
       THEN "features"
       ELSE IF StartsWith(msg, FixText) \/ Includes(msg, BugText) \/ Includes(msg, PatchText)
            THEN "fixes"
            ELSE "other"

EmptyCategories == [features |-> <<>>, fixes |-> <<>>, other |-> <<>>]

\* the loop over the commits: each message is pushed to its bucket
RECURSIVE Categorize(_, _)
Categorize(cs, categories) ==
    IF cs = <<>> THEN categories
    ELSE Categorize(Tail(cs),
            [categories EXCEPT ![Classify(Head(cs).message)] =
                Append(@, Head(cs).message)])

\* msgs.map((m) => `  - ${m}`).join('\n')
RECURSIVE JoinBullets(_)
JoinBullets(msgs) ==
    IF msgs = <<>> THEN <<>>
    ELSE IF Len(msgs) = 1 THEN BulletPrefix \o msgs[1]
    ELSE BulletPrefix \o msgs[1] \o <<"\n">> \o JoinBullets(Tail(msgs))

\* one `if (categories.x.length > 0) summary += ...` statement
SectionAlways(title, msgs) ==
    title \o <<"\n">> \o JoinBullets(msgs) \o <<"\n", "\n">>

Section(title, msgs) ==
    IF Len(msgs) > 0
    THEN title \o <<"\n">> \o JoinBullets(msgs) \o <<"\n", "\n">>
    ELSE <<>>

LocalSummarize(cs) ==
    IF Len(cs) = 0 THEN NoCommitsText
    ELSE LET categories == Categorize(cs, EmptyCategories)
         IN Trim(Section(FeaturesTitle, categories.features)
                 \o Section(FixesTitle, categories.fixes)
                 \o Section(OtherTitle, categories.other))

\* C20: the reader returns one record for every log entry, in log order,
\* whether or not the diff query of a commit fails; a commit whose diff query
\* fails (such as the initial commit) has the empty diff text and no changed
\* file, every other commit has what the diff query gave; the read itself
\* does not fail.
C20_DiffFailureKeepsTheCommit ==
    (cmd = "none" /\ call \in {"none", "getCommitsSinceTag"}
     /\ pc \in {"read", "grouped"} /\ repo.isRepo) =>
        /\ ~raised
        /\ Len(commits) = (IF call = "getCommitsSinceTag" /\ repo.describe.ok
                           THEN repo.sinceTag ELSE Len(log))
        /\ \A i \in 1..Len(commits) :
              /\ commits[i].hash = log[i].hash
              /\ commits[i].message = log[i].message
              /\ commits[i].date = log[i].date
              /\ IF log[i].hash \in noParent
                 THEN commits[i].diff = <<>> /\ commits[i].filesChanged = <<>>
                 ELSE /\ commits[i].diff = log[i].stat
                      /\ commits[i].filesChanged = log[i].files

C20_Witness ==
    /\ cmd = "none"
    /\ call = "none"
    /\ pc = "read"
    /\ Len(log) = 3
    /\ noParent = {3}
    /\ Len(commits) = 3
    /\ commits[3].diff = <<>>
    /\ commits[3].filesChanged = <<>>
    /\ commits[2].diff # <<>>

---------------------------------------------------------------------------
(* localSummarize, run on every bounded commit list *)

MaxWords == 3

GitIdle ==
    /\ log = <<>>
    /\ noParent = {}
    /\ groups = <<>>
    /\ repo = PlainRepo
    /\ tag = <<>>
    /\ repoName = <<>>

\* subject lines are built from these words, joined by single spaces
Words == {FeatText, FixText, AddText, NewText, BugText, PatchText,
          <<"d","o","c","s">>, <<"F","i","x">>, <<"A","D","D">>}

\* a commit list of n words in all: word i opens a new commit when starts[i],
\* and otherwise continues the subject of the commit before it
RECURSIVE CommitsOfWords(_, _)
CommitsOfWords(ws, starts) ==
    IF ws = <<>> THEN <<>>
    ELSE LET n == Len(ws)
             before == CommitsOfWords(SubSeq(ws, 1, n - 1), SubSeq(starts, 1, n - 1))
         IN IF starts[n]
            THEN Append(before,
                    [hash |-> Len(before) + 1, date |-> [wall |-> 0, off |-> 0],
                     message |-> ws[n], filesChanged |-> <<>>, diff |-> <<>>])
            ELSE [before EXCEPT ![Len(before)].message = @ \o <<" ">> \o ws[n]]

\* the commit lists of n words in all
SubjectLists(n) ==
    {CommitsOfWords(ws, [i \in 1..n |-> i = 1 \/ i \in breaks])
       : ws \in [1..n -> Words], breaks \in SUBSET (2..n)}

InitLocal ==
    /\ pc = "call"
    /\ call = "local"
    /\ \E n \in 0..MaxWords : commits \in SubjectLists(n)
    /\ yesterdayCommits = <<>>
    /\ proc = NoProc
    /\ result = <<>>
    /\ raised = FALSE
    /\ execCalls = <<>>
    /\ GitIdle
    /\ CmdIdle

\* localSummarize(commits)
CallLocalSummarize ==
    /\ pc = "call"
    /\ call = "local"
    /\ result' = LocalSummarize(commits)
    /\ pc' = "returned"
    /\ UNCHANGED <<commits, gitVars, call, yesterdayCommits, proc, raised, execCalls,
                   cmdVars>>

NextLocal == CallLocalSummarize

SpecLocal == InitLocal /\ [][NextLocal]_vars

---------------------------------------------------------------------------
(* Claims on localSummarize *)

\* the text cut at its newlines
RECURSIVE SplitLines(_)
SplitLines(s) ==
    IF \A i \in 1..Len(s) : s[i] # "\n" THEN <<s>>
    ELSE LET n == CHOOSE i \in 1..Len(s) :
                     s[i] = "\n" /\ \A j \in 1..(i - 1) : s[j] # "\n"
         IN <<SubSeq(s, 1, n - 1)>> \o SplitLines(SubSeq(s, n + 1, Len(s)))

Titles == {FeaturesTitle, FixesTitle, OtherTitle}

\* the title of the section that line i of the text stands in
SectionOfLine(lines, i) ==
    LET heads == {h \in 1..i : lines[h] \in Titles}
    IN IF heads = {} THEN <<>>
       ELSE lines[CHOOSE h \in heads : \A k \in heads : k <= h]

\* how many bullets of message m the section `title` of the text holds
BulletsIn(text, title, m) ==
    LET lines == SplitLines(text)
    IN Cardinality({i \in 1..Len(lines) :
            lines[i] = <<" "," ","-"," ">> \o m /\ SectionOfLine(lines, i) = title})

CommitsWithMessage(cs, m) == Cardinality({i \in 1..Len(cs) : cs[i].message = m})

\* C3: localSummarize([]) is the fixed 'No commits found in this period.';
\* otherwise every commit message is a bullet of exactly one of the sections
\* Features, Fixes, Other, and a section header is printed (once) only when
\* its section holds a bullet.
C3_LocalSummaryBuckets ==
    (pc = "returned" /\ call = "local") =>
        IF commits = <<>>
        THEN result = <<"N","o"," ","c","o","m","m","i","t","s"," ",
                        "f","o","u","n","d"," ","i","n"," ",
                        "t","h","i","s"," ","p","e","r","i","o","d",".">>
        ELSE LET lines == SplitLines(result)
             IN /\ \A c \in 1..Len(commits) :
                      \E t \in Titles :
                         /\ BulletsIn(result, t, commits[c].message)
                               = CommitsWithMessage(commits, commits[c].message)
                         /\ \A u \in Titles \ {t} :
                               BulletsIn(result, u, commits[c].message) = 0
                /\ \A i \in 1..Len(lines) :
                      lines[i] \in Titles =>
                         /\ \A j \in 1..Len(lines) : lines[j] = lines[i] => j = i
                         /\ i < Len(lines)
                         /\ \E c \in 1..Len(commits) :
                               lines[i + 1] = <<" "," ","-"," ">> \o commits[c].message

C3_Witness ==
    /\ pc = "returned"
    /\ call = "local"
    /\ Len(commits) = 3
    /\ commits[1].message = commits[3].message
    /\ BulletsIn(result, FixesTitle, commits[1].message) = 2
    /\ BulletsIn(result, OtherTitle, commits[2].message) = 1
    /\ ~Includes(result, FeaturesTitle)

\* message m holds word w at position i, letter case apart
HoldsAt(m, w, i) ==
    /\ i + Len(w) - 1 <= Len(m)
    /\ \A k \in 1..Len(w) :
          \/ m[i + k - 1] = w[k]
          \/ \E a \in 1..26 : UpperLetters[a] = m[i + k - 1] /\ LowerLetters[a] = w[k]

Begins(m, w) == HoldsAt(m, w, 1)
Contains(m, w) == \E i \in 1..Len(m) : HoldsAt(m, w, i)

FeatureLike(m) ==
    \/ Begins(m, <<"f","e","a","t">>)
    \/ Contains(m, <<"a","d","d">>)
    \/ Contains(m, <<"n","e","w">>)

FixLike(m) ==
    \/ Begins(m, <<"f","i","x">>)
    \/ Contains(m, <<"b","u","g">>)
    \/ Contains(m, <<"p","a","t","c","h">>)

\* C4: a message that starts with 'feat' or contains 'add' or 'new' (in any
\* letter case) is listed under Features, also when it starts with 'fix' or
\* contains 'bug' or 'patch'; any other message that starts with 'fix' or
\* contains 'bug' or 'patch' is listed under Fixes; the rest under Other.
C4_ClassificationPrecedence ==
    (pc = "returned" /\ call = "local") =>
        \A c \in 1..Len(commits) :
            LET m == commits[c].message
            IN BulletsIn(result,
                         IF FeatureLike(m) THEN <<"F","e","a","t","u","r","e","s",":">>
                         ELSE IF FixLike(m) THEN <<"F","i","x","e","s",":">>
                         ELSE <<"O","t","h","e","r",":">>,
                         m) >= 1

C4_Witness ==
    /\ pc = "returned"
    /\ call = "local"
    /\ Len(commits) = 2
    /\ commits[1].message = <<"A","D","D"," ","b","u","g">>
    /\ commits[2].message = <<"F","i","x">>
    /\ BulletsIn(result, FeaturesTitle, commits[1].message) = 1
    /\ BulletsIn(result, FixesTitle, commits[2].message) = 1

---------------------------------------------------------------------------
(* copilot.ts: the Copilot CLI probe, askCopilot and the generation operations *)

TotalUsageText == <<"T","o","t","a","l"," ","u","s","a","g","e"," ","e","s","t",":">>
ApiTimeText == <<"A","P","I"," ","t","i","m","e"," ","s","p","e","n","t",":">>
CopilotCliText == <<"C","o","p","i","l","o","t"," ","C","L","I">>

\* the regex class [0-9;]
IsParam(c) == c \in {"0","1","2","3","4","5","6","7","8","9",";"}

\* length of the match of /\x1B\[[0-9;]*[a-zA-Z]/ that starts at s[i], or 0
AnsiMatchLen(s, i) ==
    IF i + 1 <= Len(s) /\ s[i] = "ESC" /\ s[i + 1] = "["
    THEN LET stops == {j \in (i + 2)..Len(s) : ~IsParam(s[j])}
         IN IF stops = {} THEN 0
            ELSE LET j == CHOOSE k \in stops : \A l \in stops : k <= l
                 IN IF IsLetter(s[j]) THEN j - i + 1 ELSE 0
    ELSE 0

\* .replace(/\x1B\[[0-9;]*[a-zA-Z]/g, ''): one pass, left to right
RECURSIVE StripAnsi(_, _)
StripAnsi(s, i) ==
    IF i > Len(s) THEN <<>>
    ELSE IF AnsiMatchLen(s, i) > 0 THEN StripAnsi(s, i + AnsiMatchLen(s, i))
    ELSE <<s[i]>> \o StripAnsi(s, i + 1)

\* .replace(/\r/g, '')
IsNotCR(c) == c # "\r"
StripCR(s) == SelectSeq(s, IsNotCR)

Markers == {<<"\n">> \o TotalUsageText, <<"\n">> \o ApiTimeText}

\* cleanCopilotOutput
CleanCopilotOutput(output) ==
    LET cleaned == StripCR(StripAnsi(output, 1))
        found == {IndexOf(cleaned, marker) : marker \in Markers} \ {-1}
        earliest == IF found = {} THEN Len(cleaned)
                    ELSE CHOOSE i \in found : \A j \in found : i <= j
    IN Trim(IF earliest < Len(cleaned) THEN Substring(cleaned, 0, earliest)
            ELSE cleaned)

\* execFileAsync rejects unless the child ran and exited 0 within the limits
ExecRejects(p) == p.outcome # "ok"

\* isCopilotCliAvailable: try { stdout.includes('Copilot CLI') } catch { false }
IsCopilotCliAvailableNoCatch(p) ==
    [value |-> ~ExecRejects(p) /\ Includes(p.stdout, CopilotCliText),
     raised |-> ExecRejects(p), execs |-> <<"version">>]

IsCopilotCliAvailable(p) ==
    IF ExecRejects(p)
    THEN [value |-> FALSE, raised |-> FALSE, execs |-> <<"version">>]
    ELSE [value |-> Includes(p.stdout, CopilotCliText),
          raised |-> FALSE, execs |-> <<"version">>]

\* askCopilot: try { cleanCopilotOutput(stdout) } catch { '' }
AskCopilotNoCatch(p) ==
    [value |-> IF ExecRejects(p) THEN <<>> ELSE CleanCopilotOutput(p.stdout),
     raised |-> ExecRejects(p), execs |-> <<"prompt">>]

AskCopilot(p) ==
    IF ExecRejects(p)
    THEN [value |-> <<>>, raised |-> FALSE, execs |-> <<"prompt">>]
    ELSE [value |-> CleanCopilotOutput(p.stdout),
          raised |-> FALSE, execs |-> <<"prompt">>]

\* `if (commits.length === 0) return '';`
ReturnEmpty == [value |-> <<>>, raised |-> FALSE, execs |-> <<>>]

GenerateUnguarded(cs, p) == AskCopilot(p)

GenerateDailySummary(cs, p) == IF Len(cs) = 0 THEN ReturnEmpty ELSE AskCopilot(p)

\* generateStandupReport has no guard: an empty list becomes a placeholder
\* line of the prompt ('No commits yesterday', 'No commits yet today')
GenerateStandupReport(ys, ts, p) == AskCopilot(p)

GenerateWeeklySummary(cs, p) == IF Len(cs) = 0 THEN ReturnEmpty ELSE AskCopilot(p)

GenerateReleaseNotes(cs, p) == IF Len(cs) = 0 THEN ReturnEmpty ELSE AskCopilot(p)

GenerateRangeSummary(cs, p) == IF Len(cs) = 0 THEN ReturnEmpty ELSE AskCopilot(p)

---------------------------------------------------------------------------
(* askCopilot, run on every bounded output of the child process *)

MaxTokens == 4

\* the child's output is built from these pieces
OutputTokens == {<<"ESC">>, <<"[">>, <<"0">>, <<"m">>, <<"\r">>, <<"\n">>,
                 <<" ">>, <<"x">>, TotalUsageText, ApiTimeText}

RECURSIVE Concat(_)
Concat(pieces) ==
    IF pieces = <<>> THEN <<>> ELSE Head(pieces) \o Concat(Tail(pieces))

\* the outputs of n tokens
Outputs(n) == {Concat(pieces) : pieces \in [1..n -> OutputTokens]}

InitClean ==
    /\ pc = "call"
    /\ call = "ask"
    /\ commits = <<>>
    /\ yesterdayCommits = <<>>
    /\ \E n \in 0..MaxTokens : proc \in [outcome : {"ok"}, stdout : Outputs(n)]
    /\ result = <<>>
    /\ raised = FALSE
    /\ execCalls = <<>>
    /\ GitIdle
    /\ CmdIdle

\* askCopilot(prompt)
CallAskCopilot ==
    /\ pc = "call"
    /\ call = "ask"
    /\ LET r == AskCopilot(proc)
       IN /\ result' = r.value
          /\ raised' = r.raised
          /\ execCalls' = execCalls \o r.execs
    /\ pc' = "returned"
    /\ UNCHANGED <<commits, gitVars, call, yesterdayCommits, proc, cmdVars>>

NextClean == CallAskCopilot

SpecClean == InitClean /\ [][NextClean]_vars

---------------------------------------------------------------------------
(* The probe and the five generation operations, run on sample inputs *)

GenerationOps == {"daily", "standup", "weekly", "release", "range"}

AiCommitLists ==
    {CommitsOfWords(ws, [i \in 1..Len(ws) |-> TRUE])
        : ws \in {<<>>, <<FeatText>>, <<FixText, BugText>>}}

FailedProcs ==
    [outcome : {"absent", "timeout", "nonzero", "maxbuffer"}, stdout : {<<>>}]

GenerationOutputs ==
    {<<>>, <<" ", "\n">>, <<"D","i","d"," ","x">>,
     <<"ESC","[","0","m","D","i","d"," ","x","\n","\n">> \o TotalUsageText \o <<" ","1">>,
     <<"\n">> \o ApiTimeText \o <<" ","1">>}

VersionOutputs ==
    {<<>>, CopilotCliText, <<"x">> \o CopilotCliText \o <<" ","1","\n">>,
     <<"c","o","p","i","l","o","t"," ","c","l","i">>,
     <<"C","o","p","i","l","o","t">>}

InitAi ==
    /\ pc = "call"
    /\ call \in GenerationOps \cup {"probe"}
    /\ commits \in (IF call = "probe" THEN {<<>>} ELSE AiCommitLists)
    /\ yesterdayCommits \in (IF call = "standup" THEN AiCommitLists ELSE {<<>>})
    /\ proc \in FailedProcs \cup
                [outcome : {"ok"},
                 stdout : IF call = "probe" THEN VersionOutputs ELSE GenerationOutputs]
    /\ result = <<>>
    /\ raised = FALSE
    /\ execCalls = <<>>
    /\ GitIdle
    /\ CmdIdle

Returns(r) ==
    /\ result' = r.value
    /\ raised' = r.raised
    /\ execCalls' = execCalls \o r.execs
    /\ pc' = "returned"
    /\ UNCHANGED <<commits, gitVars, call, yesterdayCommits, proc, cmdVars>>

CallProbe ==
    pc = "call" /\ call = "probe" /\ Returns(IsCopilotCliAvailable(proc))

CallDaily ==
    pc = "call" /\ call = "daily" /\ Returns(GenerateDailySummary(commits, proc))

CallStandup ==
    /\ pc = "call" /\ call = "standup"
    /\ Returns(GenerateStandupReport(yesterdayCommits, commits, proc))

CallWeekly ==
    pc = "call" /\ call = "weekly" /\ Returns(GenerateWeeklySummary(commits, proc))

CallRelease ==
    pc = "call" /\ call = "release" /\ Returns(GenerateReleaseNotes(commits, proc))

CallRange ==
    pc = "call" /\ call = "range" /\ Returns(GenerateRangeSummary(commits, proc))

NextAi == CallProbe \/ CallDaily \/ CallStandup \/ CallWeekly \/ CallRelease \/ CallRange

SpecAi == InitAi /\ [][NextAi]_vars

---------------------------------------------------------------------------
(* Claims on the sanitizer, the probe and the generation operations *)

\* text s holds the piece w at some position
Holds(s, w) ==
    \E i \in 1..Len(s) :
        i + Len(w) - 1 <= Len(s) /\ \A k \in 1..Len(w) : s[i + k - 1] = w[k]

\* text s holds an escape sequence: ESC, '[', digits and ';', then a letter
HoldsEscapeSequence(s) ==
    \E i, j \in 1..Len(s) :
        /\ i + 2 <= j
        /\ s[i] = "ESC"
        /\ s[i + 1] = "["
        /\ \A k \in (i + 2)..(j - 1) : s[k] \in {"0","1","2","3","4","5","6","7","8","9",";"}
        /\ \E a \in 1..26 : s[j] \in {UpperLetters[a], LowerLetters[a]}

\* C5: when the AI output holds a usage-footer marker ('Total usage est:' or
\* 'API time spent:'), nothing from the earliest marker onward is in the
\* sanitized text, so the sanitized text holds no marker; and the sanitized
\* text of any output holds no ANSI escape sequence.
C5_FooterAndEscapesRemoved ==
    (pc = "returned" /\ call = "ask") =>
        /\ (Holds(proc.stdout, <<"T","o","t","a","l"," ","u","s","a","g","e"," ","e","s","t",":">>)
            \/ Holds(proc.stdout, <<"A","P","I"," ","t","i","m","e"," ","s","p","e","n","t",":">>))
           => /\ ~Holds(result, <<"T","o","t","a","l"," ","u","s","a","g","e"," ","e","s","t",":">>)
              /\ ~Holds(result, <<"A","P","I"," ","t","i","m","e"," ","s","p","e","n","t",":">>)
        /\ ~HoldsEscapeSequence(result)

\* C6 as stated: each of the five generation operations, called with no
\* commits (standup: both lists empty), returns '' without spawning the CLI.
C6_AllFiveSkipOnEmpty ==
    (pc = "returned" /\ call \in GenerationOps
        /\ commits = <<>> /\ yesterdayCommits = <<>>) =>
        result = <<>> /\ execCalls = <<>>

\* C6, amended: daily, weekly, release and range, called with no commits,
\* return '' without spawning the CLI; standup has no such guard and spawns
\* the CLI with its prompt also when both of its lists are empty.
C6_FourSkipOnEmptyStandupAsks ==
    /\ (pc = "returned" /\ call \in {"daily", "weekly", "release", "range"}
           /\ commits = <<>>) =>
          result = <<>> /\ execCalls = <<>> /\ ~raised
    /\ (pc = "returned" /\ call = "standup"
           /\ commits = <<>> /\ yesterdayCommits = <<>>) =>
          execCalls = <<"prompt">>

C6_Witness ==
    /\ pc = "returned"
    /\ call = "daily"
    /\ commits = <<>>
    /\ proc.outcome = "ok"
    /\ Holds(proc.stdout, <<"D","i","d">>)
    /\ result = <<>>
    /\ execCalls = <<>>

\* C7: no failure of the CLI is raised to the caller: the probe answers true
\* exactly when the child ran and printed 'Copilot CLI', and false on every
\* failure; a generation operation returns '' when the child fails.
C7_CliFailureNeverRaised ==
    pc = "returned" =>
        /\ raised = FALSE
        /\ call = "probe" =>
              /\ result \in BOOLEAN
              /\ result <=> (proc.outcome = "ok"
                             /\ Holds(proc.stdout,
                                      <<"C","o","p","i","l","o","t"," ","C","L","I">>))
        /\ (call \in GenerationOps /\ proc.outcome # "ok") => result = <<>>

C7_Witness ==
    /\ pc = "returned"
    /\ call = "weekly"
    /\ commits # <<>>
    /\ proc.outcome = "timeout"
    /\ execCalls = <<"prompt">>
    /\ result = <<>>
    /\ ~raised

---------------------------------------------------------------------------
(* getCommitsSinceTag and getRepoName, run on bounded repositories *)

MaxUrlTokens == 4

\* a history of n commits, newest first
History(n) == [i \in 1..n |-> LogEntry(i, [wall |-> 0, off |-> 0])]

\* what `git describe --tags --abbrev=0` prints: the tag and a newline
Described ==
    {[ok |-> TRUE, stdout |-> name \o <<"\n">>]
       : name \in {<<"v", "1">>, <<"r", "-", "2">>}}

\* repositories without a tag, and with the latest tag on a commit of the
\* history, sinceTag commits behind HEAD
TagRepos(n) ==
    {[PlainRepo EXCEPT !.isRepo = b] : b \in BOOLEAN}
        \cup {[PlainRepo EXCEPT !.describe = d, !.sinceTag = k]
                : d \in Described, k \in 0..(n - 1)}

InitTag ==
    /\ pc = "git"
    /\ call = "getCommitsSinceTag"
    /\ \E n \in 0..MaxCommits :
          /\ log = History(n)
          /\ noParent \in SUBSET (1..n)
          /\ repo \in TagRepos(n)
    /\ commits = <<>>
    /\ groups = <<>>
    /\ tag = <<>>
    /\ repoName = <<>>
    /\ yesterdayCommits = <<>>
    /\ proc = NoProc
    /\ result = <<>>
    /\ raised = FALSE
    /\ execCalls = <<>>
    /\ CmdIdle

\* getCommitsSinceTag()
ReadSinceTag ==
    /\ pc = "git"
    /\ call = "getCommitsSinceTag"
    /\ commits' = GetCommitsSinceTag(repo, noParent, log).commits
    /\ tag' = GetCommitsSinceTag(repo, noParent, log).tag
    /\ raised' = GetCommitsSinceTag(repo, noParent, log).raised
    /\ pc' = "read"
    /\ UNCHANGED <<log, noParent, groups, repo, repoName, call, yesterdayCommits,
                   proc, result, execCalls, cmdVars>>

SpecTag == InitTag /\ [][ReadSinceTag]_vars

\* what `git remote get-url origin` prints: a URL of up to MaxUrlTokens
\* pieces, and a newline
Remotes ==
    LET tokens == {<<"/">>, <<"r">>, DotGit, <<"h", ":">>}
        urls == UNION {{Concat(pieces) : pieces \in [1..n -> tokens]}
                       : n \in 1..MaxUrlTokens}
    IN {Rejected} \cup {[ok |-> TRUE, stdout |-> u \o <<"\n">>] : u \in urls}
Roots == {<<"/", "w", "\n">>, <<"/", "h", "/", "w", "\n">>, <<"/", "\n">>}

InitName ==
    /\ pc = "git"
    /\ call = "getRepoName"
    /\ repo \in {[PlainRepo EXCEPT !.isRepo = b, !.remote = u, !.root = d]
                   : b \in BOOLEAN, u \in Remotes, d \in Roots}
    /\ log = <<>>
    /\ noParent = {}
    /\ commits = <<>>
    /\ groups = <<>>
    /\ tag = <<>>
    /\ repoName = <<>>
    /\ yesterdayCommits = <<>>
    /\ proc = NoProc
    /\ result = <<>>
    /\ raised = FALSE
    /\ execCalls = <<>>
    /\ CmdIdle

\* getRepoName()
ReadRepoName ==
    /\ pc = "git"
    /\ call = "getRepoName"
    /\ repoName' = GetRepoName(repo).name
    /\ raised' = GetRepoName(repo).raised
    /\ pc' = "read"
    /\ UNCHANGED <<log, noParent, commits, groups, repo, tag, call, yesterdayCommits,
                   proc, result, execCalls, cmdVars>>

SpecName == InitName /\ [][ReadRepoName]_vars

C16_WitnessTagged ==
    /\ call = "getCommitsSinceTag"
    /\ pc = "read"
    /\ repo.describe.ok
    /\ Len(log) = 3
    /\ Len(commits) = 2
    /\ tag = <<"v", "1">>

\* the text behind the last '/' of s (all of s when it has none)
LastSegment(s) ==
    LET slashes == {i \in 1..Len(s) : s[i] = "/"}
    IN IF slashes = {} THEN s
       ELSE SubSeq(s, (CHOOSE i \in slashes : \A j \in slashes : i >= j) + 1, Len(s))

\* s without a trailing '.git'
WithoutDotGit(s) ==
    IF Len(s) >= 4 /\ SubSeq(s, Len(s) - 3, Len(s)) = <<".", "g", "i", "t">>
    THEN SubSeq(s, 1, Len(s) - 4) ELSE s

\* C17 (as stated): getRepoName returns the last path segment of the origin
\* URL with a trailing '.git' removed, and without an origin remote the base
\* name of the working-tree root.
C17_LastSegmentOfOriginUrl ==
    (call = "getRepoName" /\ pc = "read" /\ repo.isRepo) =>
        /\ ~raised
        /\ repo.remote.ok => repoName = WithoutDotGit(LastSegment(Trim(repo.remote.stdout)))
        /\ ~repo.remote.ok => repoName = LastSegment(Trim(repo.root))

\* what does hold: a URL that ends in '/name' or '/name.git', name not
\* empty, gives name
NameOfPlainUrl ==
    (call = "getRepoName" /\ pc = "read" /\ repo.isRepo /\ repo.remote.ok
     /\ WithoutDotGit(LastSegment(Trim(repo.remote.stdout))) # <<>>
     /\ LastSegment(Trim(repo.remote.stdout)) # Trim(repo.remote.stdout)) =>
        repoName = WithoutDotGit(LastSegment(Trim(repo.remote.stdout)))

\* the URL 'h:/r/' (a trailing slash) gives the directory name 'w'
TrailingSlashGivesDirectory ==
    /\ call = "getRepoName"
    /\ pc = "read"
    /\ repo.isRepo
    /\ repo.remote = [ok |-> TRUE, stdout |-> <<"h", ":", "/", "r", "/", "\n">>]
    /\ repo.root = <<"/", "h", "/", "w", "\n">>
    /\ repoName = <<"w">>

---------------------------------------------------------------------------
(* loadConfig, run on every bounded set of config files *)

\* what a candidate file may be; the JSON values are given by their own keys
FileStates ==
    {Missing, Unreadable, Invalid}
        \cup {Json(v) : v \in {NoKeys,
                                [useCopilot |-> FALSE],
                                [format |-> "json", maxCommits |-> 5],
                                [useCopilot |-> FALSE, showStats |-> FALSE,
                                 author |-> "me"]}}

FileSystems == [DOMAIN NoFiles -> FileStates]

InitConfig ==
    /\ pc = "call"
    /\ call = "loadConfig"
    /\ files \in FileSystems
    /\ commits = <<>>
    /\ yesterdayCommits = <<>>
    /\ proc = NoProc
    /\ result = <<>>
    /\ raised = FALSE
    /\ execCalls = <<>>
    /\ GitIdle
    /\ CmdQuiet

\* loadConfig()
CallLoadConfig ==
    /\ pc = "call"
    /\ call = "loadConfig"
    /\ config' = LoadConfig(files).value
    /\ raised' = LoadConfig(files).raised
    /\ pc' = "returned"
    /\ UNCHANGED <<commits, gitVars, call, yesterdayCommits, proc, result, execCalls,
                   cmd, options, range, parts, copilotAvailable, spinner, aiSpinner,
                   aiSummary, printed, exported, exitCode, gitQueries, settled,
                   invoked, files>>

SpecConfig == InitConfig /\ [][CallLoadConfig]_vars

\* the candidate at position i of the lookup order holds parseable JSON
ParsesAt(order, i) == files[order[i]].state = "json"

\* C12: loadConfig never raises.  When no candidate file is there and
\* parseable, it returns exactly the default configuration.  Otherwise the
\* first parseable candidate counts, the project directory's files before
\* the home directory's (a missing or unparseable candidate is passed over):
\* the result has that file's value for each of its keys and the default for
\* every other key.
C12_LoadConfigDefaultsAndOverrides ==
    (call = "loadConfig" /\ pc = "returned") =>
        LET order == <<"cwd/.devlogrc", "cwd/.devlogrc.json",
                       "home/.devlogrc", "home/.devlogrc.json">>
            defaults == [format |-> "terminal", useCopilot |-> TRUE,
                         author |-> "undefined", showFiles |-> TRUE,
                         showStats |-> TRUE, maxCommits |-> 100]
        IN /\ ~raised
           /\ (\A i \in 1..4 : ~ParsesAt(order, i)) => config = defaults
           /\ \A i \in 1..4 :
                 (ParsesAt(order, i) /\ \A j \in 1..(i - 1) : ~ParsesAt(order, j)) =>
                    LET user == files[order[i]].value
                    IN /\ DOMAIN config = (DOMAIN defaults) \cup (DOMAIN user)
                       /\ \A k \in DOMAIN user : config[k] = user[k]
                       /\ \A k \in (DOMAIN defaults) \ (DOMAIN user) :
                             config[k] = defaults[k]

C12_Witness ==
    /\ call = "loadConfig"
    /\ pc = "returned"
    /\ files["cwd/.devlogrc"].state = "invalid"
    /\ files["cwd/.devlogrc.json"].state = "missing"
    /\ files["home/.devlogrc"] = Json([format |-> "json", maxCommits |-> 5])
    /\ files["home/.devlogrc.json"].state = "json"
    /\ config.maxCommits = 5
    /\ config.useCopilot
    /\ ~raised

---------------------------------------------------------------------------
(* index.ts: the commands today, standup, week, release and recap *)

MaxRangeLen == 7

\* how many times in a row init is run in one directory
MaxInitRuns == 2

DotDot == <<".", ".">>

\* `if (parts.length !== 2)`: the recap argument is refused
RangeRefusedUnlessOneOrTwo(ps) == Len(ps) > 2

RangeRefused(ps) == Len(ps) # 2

\* the commands with `if (commits.length === 0) { printWarning; return }`
ReturnsOnNoCommitsButToday(c) == c \in {"week", "release", "recap"}

ReturnsOnNoCommits(c) == c \in {"today", "week", "release", "recap"}

\* the reader calls of the command's Promise.all, in the order of its array
Readers(c) ==
    CASE c = "today" ->
            <<"getCommitsToday", "getRepoName", "getCurrentBranch", "getAuthorName">>
      [] c = "standup" ->
            <<"getCommitsYesterday", "getCommitsToday", "getRepoName",
              "getCurrentBranch", "getAuthorName">>
      [] c = "week" ->
            <<"getCommitsThisWeek", "getRepoName", "getCurrentBranch", "getAuthorName">>
      [] c = "release" -> <<"getCommitsSinceTag", "getRepoName">>
      [] c = "recap" -> <<"getCommitsRange", "getRepoName">>
      [] c = "status" -> <<"getRepoName", "getCurrentBranch", "getAuthorName">>
      [] OTHER -> <<>>

ReadersOf(c) == {Readers(c)[i] : i \in 1..Len(Readers(c))}

QueriesOf(c) == Len(Readers(c))

\* how reader call q settles: every reader awaits getGit first; its own git
\* command may be rejected, which only getAuthorName catches ('Developer')
QueryOutcome(r, q) ==
    IF GetGit(r).raised THEN GetGit(r)
    ELSE IF q \in r.failing /\ q # "getAuthorName"
    THEN [raised |-> TRUE, message |-> q]
    ELSE [raised |-> FALSE, message |-> ""]

\* one printed item
Ev(kind, text) == [kind |-> kind, text |-> text]

\* printSummary / printReleaseNotes: a box with the text, nothing when empty
PrintSummary(kind, content) ==
    IF content = <<>> THEN <<>> ELSE <<Ev(kind, content)>>

\* the commits the command summarizes ([...yesterdayCommits, ...todayCommits])
AllCommits(c, ys, ts) == IF c = "standup" THEN ys \o ts ELSE ts

\* the `else` branches of the summary step: localSummarize of the commits
FallbackOfTodayOnly(c, ys, ts) == LocalSummarize(ts)

Fallback(c, ys, ts) == LocalSummarize(AllCommits(c, ys, ts))

\* `options.ai !== false && copilotAvailable && config.useCopilot`
AiEnabledIgnoringConfig(o, available, cfg) == o.ai /\ available

AiEnabled(o, available, cfg) == o.ai /\ available /\ cfg.useCopilot

\* `else if (options.ai !== false)`
SummarizesLocallyAlways(o) == TRUE

SummarizesLocally(o) == o.ai

\* spinner.stop()
LeftSpinning(s) == s

Stopped(s) == "stopped"

\* the generation operation the command awaits
GenerationOf(c) ==
    CASE c = "today" -> "generateDailySummary"
      [] c = "standup" -> "generateStandupReport"
      [] c = "week" -> "generateWeeklySummary"
      [] c = "release" -> "generateReleaseNotes"
      [] c = "recap" -> "generateRangeSummary"

Generate(c, ys, ts, p) ==
    CASE c = "today" -> GenerateDailySummary(ts, p)
      [] c = "standup" -> GenerateStandupReport(ys, ts, p)
      [] c = "week" -> GenerateWeeklySummary(ts, p)
      [] c = "release" -> GenerateReleaseNotes(ts, p)
      [] c = "recap" -> GenerateRangeSummary(ts, p)

\* the argument of exportDailyMarkdown / exportWeeklyMarkdown / exportReleaseMarkdown
MarkdownDocument(c, summary) ==
    [kind |-> "markdown", hasSummary |-> TRUE, summary |-> summary]

\* the argument of exportJSON: standup's object has no summary field
JsonDocument(c, summary) ==
    [kind |-> "json", hasSummary |-> c # "standup",
     summary |-> IF c = "standup" THEN <<>> ELSE summary]

\* generateSampleConfig, as the JSON value the written file holds
SampleConfig ==
    [format |-> "terminal", useCopilot |-> TRUE, showFiles |-> TRUE,
     showStats |-> TRUE, maxCommits |-> 100]

Commands == {"today", "standup", "week", "release", "recap"}
AllCommands == Commands \cup {"init", "status"}
Options == [ai : BOOLEAN, json : BOOLEAN, output : BOOLEAN]
ProbeProcs == {[outcome |-> "ok", stdout |-> CopilotCliText],
               [outcome |-> "ok", stdout |-> <<>>],
               [outcome |-> "absent", stdout |-> <<>>]}
GenerationProcs == FailedProcs \cup [outcome : {"ok"}, stdout : GenerationOutputs]
SampleRanges == {<<"a", ".", ".", "b">>, <<"a">>}

\* the working directories a command is started in: not a repository, or a
\* repository in which any of the command's reader calls may be rejected
CommandRepos(c) ==
    {[PlainRepo EXCEPT !.isRepo = FALSE]}
        \cup {[PlainRepo EXCEPT !.failing = f] : f \in SUBSET ReadersOf(c)}

\* the config files on disk: none; a project .devlogrc that turns Copilot
\* off; an unparseable project file in front of a home file; a directory
\* named .devlogrc
SampleFiles ==
    {NoFiles,
     [NoFiles EXCEPT !["cwd/.devlogrc"] = Json([useCopilot |-> FALSE])],
     [NoFiles EXCEPT !["cwd/.devlogrc"] = Invalid,
                     !["home/.devlogrc"] = Json([showStats |-> FALSE])],
     [NoFiles EXCEPT !["cwd/.devlogrc"] = Unreadable]}

\* what a command is started with and never assigns
inputVars == <<cmd, options, range, log, noParent, repo, tag, repoName, call>>

Running ==
    /\ pc = "start"
    /\ parts = <<>>
    /\ config = DefaultConfig
    /\ copilotAvailable = FALSE
    /\ spinner = "none"
    /\ aiSpinner = "none"
    /\ aiSummary = <<>>
    /\ printed = <<>>
    /\ exported = <<>>
    /\ exitCode = -1
    /\ gitQueries = 0
    /\ settled = {}
    /\ invoked = <<>>
    /\ commits = <<>>
    /\ log = <<>>
    /\ noParent = {}
    /\ groups = <<>>
    /\ tag = <<>>
    /\ repoName = <<>>
    /\ AiIdle

Init ==
    /\ cmd \in AllCommands
    /\ options \in (IF cmd \in Commands THEN Options ELSE {NoOptions})
    /\ range \in (IF cmd = "recap" THEN SampleRanges ELSE {<<>>})
    /\ repo \in CommandRepos(cmd)
    /\ files \in SampleFiles
    /\ Running

\* printBanner; loadConfig; await isCopilotCliAvailable; printCopilotStatus
Probe ==
    /\ pc = "start"
    /\ cmd \in Commands
    /\ \E p \in ProbeProcs :
          LET r == IsCopilotCliAvailable(p)
          IN /\ config' = LoadConfig(files).value
             /\ invoked' = invoked \o <<"loadConfig", "isCopilotCliAvailable">>
             /\ execCalls' = execCalls \o r.execs
             /\ IF r.raised
                THEN /\ copilotAvailable' = copilotAvailable
                     /\ printed' = printed \o <<Ev("banner", <<>>), Ev("error", <<"unexpected">>)>>
                     /\ exitCode' = 1
                     /\ pc' = "exited"
                ELSE /\ copilotAvailable' = r.value
                     /\ printed' = printed \o <<Ev("banner", <<>>), Ev("copilotStatus", <<>>)>>
                     /\ exitCode' = exitCode
                     /\ pc' = "probed"
    /\ UNCHANGED <<inputVars, commits, groups, yesterdayCommits, proc, result, raised,
                   parts, spinner, aiSpinner, aiSummary, exported, gitQueries,
                   settled, files>>

\* recap: range.split('..') and its check; then ora(...).start() and the
\* Promise.all of the reader calls is issued
StartRead ==
    /\ pc = "probed"
    /\ IF cmd = "recap" /\ RangeRefused(Split(range, DotDot))
       THEN /\ printed' = Append(printed, Ev("error", <<"usage">>))
            /\ exitCode' = 1
            /\ pc' = "exited"
            /\ UNCHANGED <<parts, spinner, gitQueries>>
       ELSE /\ parts' = IF cmd = "recap" THEN Split(range, DotDot) ELSE parts
            /\ spinner' = "spinning"
            /\ gitQueries' = gitQueries + QueriesOf(cmd)
            /\ pc' = "reading"
            /\ UNCHANGED <<printed, exitCode>>
    /\ UNCHANGED <<inputVars, commits, groups, yesterdayCommits, proc, result, raised,
                   execCalls, config, copilotAvailable, aiSpinner, aiSummary,
                   exported, settled, invoked, files>>

\* status: printBanner, then the Promise.all of its reader calls is issued
StatusStart ==
    /\ pc = "start"
    /\ cmd = "status"
    /\ printed' = Append(printed, Ev("banner", <<>>))
    /\ gitQueries' = gitQueries + QueriesOf(cmd)
    /\ pc' = "reading"
    /\ UNCHANGED <<inputVars, commits, groups, yesterdayCommits, proc, result, raised,
                   execCalls, parts, config, copilotAvailable, spinner, aiSpinner,
                   aiSummary, exported, exitCode, settled, invoked, files>>

\* one reader call of the Promise.all fulfils, in any order
Settle ==
    /\ pc = "reading"
    /\ \E q \in ReadersOf(cmd) \ settled :
          /\ ~QueryOutcome(repo, q).raised
          /\ settled' = settled \cup {q}
    /\ UNCHANGED <<pc, inputVars, commits, groups, yesterdayCommits, proc, result,
                   raised, execCalls, parts, config, copilotAvailable, spinner,
                   aiSpinner, aiSummary, printed, exported, exitCode, gitQueries,
                   invoked, files>>

\* one reader call is rejected, which rejects the Promise.all with its
\* error: catch { spinner.stop; printError(error.message); process.exit(1) }
ReadFails ==
    /\ pc = "reading"
    /\ \E q \in ReadersOf(cmd) \ settled :
          /\ QueryOutcome(repo, q).raised
          /\ printed' = Append(printed, Ev("error", <<QueryOutcome(repo, q).message>>))
    /\ spinner' = IF cmd = "status" THEN spinner ELSE Stopped(spinner)
    /\ exitCode' = 1
    /\ pc' = "exited"
    /\ UNCHANGED <<inputVars, commits, groups, yesterdayCommits, proc, result, raised,
                   execCalls, parts, config, copilotAvailable, aiSpinner, aiSummary,
                   exported, gitQueries, settled, invoked, files>>

\* the Promise.all resolves: spinner.stop, printHeader, then either the
\* warning and return, or the stats and commit listing
ReadDone ==
    /\ pc = "reading"
    /\ cmd \in Commands
    /\ settled = ReadersOf(cmd)
    /\ \E ts \in AiCommitLists :
       \E ys \in (IF cmd = "standup" THEN AiCommitLists ELSE {<<>>}) :
          /\ commits' = ts
          /\ yesterdayCommits' = ys
          /\ IF ReturnsOnNoCommits(cmd) /\ Len(ts) = 0
             THEN /\ printed' = printed \o <<Ev("header", <<>>), Ev("warning", <<>>),
                                             Ev("footer", <<>>)>>
                  /\ exitCode' = 0
                  /\ pc' = "done"
                  /\ groups' = groups
             ELSE /\ printed' = printed \o <<Ev("header", <<>>), Ev("commits", <<>>)>>
                  /\ exitCode' = exitCode
                  /\ pc' = "summarize"
                  /\ groups' = IF cmd \in {"week", "recap"}
                               THEN GroupCommitsByDate(ts) ELSE groups
    /\ spinner' = Stopped(spinner)
    /\ UNCHANGED <<inputVars, proc, result, raised, execCalls, parts, config,
                   copilotAvailable, aiSpinner, aiSummary, exported, gitQueries,
                   settled, invoked, files>>

\* status, once the Promise.all resolves: header and infos, the probe,
\* loadConfig, the config line and the footer, all inside the try
StatusReport ==
    /\ pc = "reading"
    /\ cmd = "status"
    /\ settled = ReadersOf(cmd)
    /\ \E p \in ProbeProcs :
          LET r == IsCopilotCliAvailable(p)
          IN /\ execCalls' = execCalls \o r.execs
             /\ IF r.raised
                THEN /\ invoked' = Append(invoked, "isCopilotCliAvailable")
                     /\ printed' = printed \o <<Ev("header", <<>>), Ev("info", <<>>),
                                                Ev("error", <<"probe">>)>>
                     /\ exitCode' = 1
                     /\ pc' = "exited"
                     /\ UNCHANGED <<config, copilotAvailable>>
                ELSE /\ invoked' = invoked \o <<"isCopilotCliAvailable", "loadConfig">>
                     /\ copilotAvailable' = r.value
                     /\ config' = LoadConfig(files).value
                     /\ printed' = printed \o <<Ev("header", <<>>), Ev("info", <<>>),
                                                Ev("copilotStatus", <<>>),
                                                Ev("info", <<>>), Ev("footer", <<>>)>>
                     /\ exitCode' = 0
                     /\ pc' = "done"
    /\ UNCHANGED <<inputVars, commits, groups, yesterdayCommits, proc, result, raised,
                   parts, spinner, aiSpinner, aiSummary, exported, gitQueries,
                   settled, files>>

\* `fs.existsSync(configPath)` of init: anything at the path counts
ConfigExistsNever(fs) == FALSE

ConfigExists(fs) == fs["cwd/.devlogrc"].state # "missing"

\* init: refuses when .devlogrc exists; else writeFileSync of the sample
\* config, outside any try: a failing write is an uncaught exception, which
\* the runtime reports with its stack trace and exit status 1
InitCommand ==
    /\ pc = "start"
    /\ cmd = "init"
    /\ IF ConfigExists(files)
       THEN /\ printed' = Append(printed, Ev("warning", <<>>))
            /\ exitCode' = 0
            /\ pc' = "done"
            /\ files' = files
       ELSE \E writeFails \in BOOLEAN :
               IF writeFails
               THEN /\ printed' = Append(printed, Ev("uncaught", <<"stack trace">>))
                    /\ exitCode' = 1
                    /\ pc' = "exited"
                    /\ files' = files
               ELSE /\ files' = [files EXCEPT !["cwd/.devlogrc"] = Json(SampleConfig)]
                    /\ printed' = Append(printed, Ev("info", <<>>))
                    /\ exitCode' = 0
                    /\ pc' = "done"
    /\ UNCHANGED <<inputVars, commits, groups, aiVars, parts, config,
                   copilotAvailable, spinner, aiSpinner, aiSummary, exported,
                   gitQueries, settled, invoked>>

\* `devlog init` is run again in the same directory: a new process parses
\* the command line; the files and the terminal's earlier lines stay
InitAgain ==
    /\ cmd = "init"
    /\ pc \in {"done", "exited"}
    /\ Len(printed) < MaxInitRuns
    /\ pc' = "start"
    /\ exitCode' = -1
    /\ UNCHANGED <<inputVars, commits, groups, aiVars, parts, config,
                   copilotAvailable, spinner, aiSpinner, aiSummary, printed,
                   exported, gitQueries, settled, invoked, files>>

\* `if (options.ai !== false && copilotAvailable && config.useCopilot)`: the
\* AI spinner starts and the generation is awaited; `else if (options.ai !==
\* false)`: the local summary; else nothing
Summarize ==
    /\ pc = "summarize"
    /\ IF AiEnabled(options, copilotAvailable, config)
       THEN /\ aiSpinner' = "spinning"
            /\ invoked' = Append(invoked, GenerationOf(cmd))
            /\ pc' = "generating"
            /\ UNCHANGED <<aiSummary, printed>>
       ELSE IF SummarizesLocally(options)
       THEN /\ aiSummary' = Fallback(cmd, yesterdayCommits, commits)
            /\ invoked' = Append(invoked, "localSummarize")
            /\ printed' = printed
                  \o PrintSummary("summary", Fallback(cmd, yesterdayCommits, commits))
            /\ pc' = "export"
            /\ UNCHANGED aiSpinner
       ELSE /\ pc' = "export"
            /\ UNCHANGED <<aiSpinner, aiSummary, printed, invoked>>
    /\ UNCHANGED <<inputVars, commits, groups, yesterdayCommits, proc, result, raised,
                   execCalls, parts, config, copilotAvailable, spinner, exported,
                   exitCode, gitQueries, settled, files>>

\* the generation returns: aiSpinner.stop, then the AI text or, when it is
\* empty, the local summary; a rejection would skip the stop and reach the
\* catch
GenerateDone ==
    /\ pc = "generating"
    /\ \E p \in GenerationProcs :
          LET r == Generate(cmd, yesterdayCommits, commits, p)
          IN /\ proc' = p
             /\ result' = r.value
             /\ raised' = r.raised
             /\ execCalls' = execCalls \o r.execs
             /\ IF r.raised
                THEN /\ printed' = Append(printed, Ev("error", <<"ai">>))
                     /\ exitCode' = 1
                     /\ pc' = "exited"
                     /\ UNCHANGED <<aiSpinner, aiSummary, invoked>>
                ELSE /\ aiSpinner' = Stopped(aiSpinner)
                     /\ aiSummary' = IF r.value # <<>> THEN r.value
                                     ELSE Fallback(cmd, yesterdayCommits, commits)
                     /\ invoked' = IF r.value # <<>> THEN invoked
                                   ELSE Append(invoked, "localSummarize")
                     /\ printed' = printed \o
                           (IF r.value # <<>> THEN PrintSummary("aiSummary", r.value)
                            ELSE PrintSummary("summary",
                                    Fallback(cmd, yesterdayCommits, commits)))
                     /\ exitCode' = exitCode
                     /\ pc' = "export"
    /\ UNCHANGED <<inputVars, commits, groups, yesterdayCommits, parts, config,
                   copilotAvailable, spinner, exported, gitQueries, settled, files>>

\* `if (options.output)` writeFileSync of the markdown, which may throw;
\* `if (options.json)` console.log(exportJSON(...)); printFooter
Export ==
    /\ pc = "export"
    /\ \E writeFails \in (IF options.output THEN BOOLEAN ELSE {FALSE}) :
          IF writeFails
          THEN /\ printed' = Append(printed, Ev("error", <<"write">>))
               /\ exitCode' = 1
               /\ pc' = "exited"
               /\ exported' = exported
          ELSE /\ exported' = exported
                     \o (IF options.output THEN <<MarkdownDocument(cmd, aiSummary)>>
                         ELSE <<>>)
                     \o (IF options.json THEN <<JsonDocument(cmd, aiSummary)>> ELSE <<>>)
               /\ printed' = printed
                     \o (IF options.output THEN <<Ev("info", <<>>)>> ELSE <<>>)
                     \o (IF options.json THEN <<Ev("json", <<>>)>> ELSE <<>>)
                     \o <<Ev("footer", <<>>)>>
               /\ exitCode' = 0
               /\ pc' = "done"
    /\ UNCHANGED <<inputVars, commits, groups, aiVars, parts, config,
                   copilotAvailable, spinner, aiSpinner, aiSummary, gitQueries,
                   settled, invoked, files>>

Next ==
    \/ Probe
    \/ StartRead
    \/ StatusStart
    \/ Settle
    \/ ReadFails
    \/ ReadDone
    \/ StatusReport
    \/ InitCommand
    \/ InitAgain
    \/ Summarize
    \/ GenerateDone
    \/ Export

Spec == Init /\ [][Next]_vars

\* recap --no-ai on every bounded <range> argument
RangeChars == {".", "a", "b"}
Ranges == UNION {[1..n -> RangeChars] : n \in 0..MaxRangeLen}

InitRecap ==
    /\ cmd = "recap"
    /\ options = [ai |-> FALSE, json |-> FALSE, output |-> FALSE]
    /\ range \in Ranges
    /\ repo \in {PlainRepo, [PlainRepo EXCEPT !.failing = {"getCommitsRange"}]}
    /\ files = NoFiles
    /\ Running

NextRecap ==
    Probe \/ StartRead \/ Settle \/ ReadFails \/ ReadDone \/ Summarize \/ Export

SpecRecap == InitRecap /\ [][NextRecap]_vars

---------------------------------------------------------------------------
(* Claims on the commands *)

HasPrinted(kind) == \E i \in 1..Len(printed) : printed[i].kind = kind

\* the commits the running command has read, yesterday's first
CommitsRead == IF cmd = "standup" THEN yesterdayCommits \o commits ELSE commits

\* the expected local summary holds one of the three section headers
HoldsSectionHeader(s) ==
    \/ Holds(s, <<"F","e","a","t","u","r","e","s",":">>)
    \/ Holds(s, <<"F","i","x","e","s",":">>)
    \/ Holds(s, <<"O","t","h","e","r",":">>)

\* C8: in today, standup, week, release and recap without --no-ai and with
\* commits read: when the probe found no CLI, or the config disables it, or
\* the generation came back empty (failed or empty text), the summary kept,
\* shown and put into every export that carries a summary is
\* localSummarize(commits), which holds 'Features:', 'Fixes:' or 'Other:';
\* nothing is printed as an AI summary, and no error is reported: the command
\* ends with status 0 (only a failing write of the -o file can still end it
\* with an error).
C8_LocalFallbackShownAndExported ==
    (/\ cmd \in Commands
     /\ options.ai
     /\ CommitsRead # <<>>
     /\ pc \in {"export", "done", "exited"}
     /\ \/ ~copilotAvailable
        \/ ~config.useCopilot
        \/ (aiSpinner = "stopped" /\ result = <<>>)) =>
        /\ aiSummary = LocalSummarize(CommitsRead)
        /\ HoldsSectionHeader(aiSummary)
        /\ \E i \in 1..Len(printed) :
              printed[i] = [kind |-> "summary", text |-> LocalSummarize(CommitsRead)]
        /\ ~HasPrinted("aiSummary")
        /\ \A i \in 1..Len(exported) :
              exported[i].hasSummary => exported[i].summary = LocalSummarize(CommitsRead)
        /\ ~raised
        /\ \A i \in 1..Len(printed) :
              printed[i].kind = "error" => (options.output /\ printed[i].text = <<"write">>)
        /\ pc = "done" => (exitCode = 0 /\ ~HasPrinted("error")
                           /\ Len(exported) = (IF options.output THEN 1 ELSE 0)
                                              + (IF options.json THEN 1 ELSE 0))
        /\ pc = "exited" => HasPrinted("error")

C8_Witness ==
    /\ cmd = "standup"
    /\ pc = "done"
    /\ exitCode = 0
    /\ copilotAvailable /\ config.useCopilot /\ options.ai
    /\ proc.outcome = "timeout"
    /\ Len(yesterdayCommits) = 1
    /\ Len(commits) = 2
    /\ Len(exported) = 2
    /\ exported[1].summary = aiSummary
    /\ Holds(aiSummary, FeaturesTitle)
    /\ Holds(aiSummary, FixesTitle)

DotsAt(s, i) == i >= 1 /\ i + 1 <= Len(s) /\ s[i] = "." /\ s[i + 1] = "."

\* s holds exactly one '..' separator, read left to right: a first '..' at i,
\* and no later '..' in the text behind it
OneSeparatorAt(s, i) ==
    /\ DotsAt(s, i)
    /\ \A j \in 1..(i - 1) : ~DotsAt(s, j)
    /\ \A k \in (i + 2)..Len(s) : ~DotsAt(s, k)

\* C10: no git query is issued before the recap argument is checked; an
\* argument with exactly one '..' separator is accepted, with from the text
\* before it and to the text after it; any other argument ends the command
\* with the usage error and exit status 1, no git query issued.
C10_RecapRangeValidated ==
    cmd = "recap" =>
        /\ pc \in {"start", "probed"} => (gitQueries = 0 /\ parts = <<>>)
        /\ pc \notin {"start", "probed"} =>
              IF \E i \in 1..Len(range) : OneSeparatorAt(range, i)
              THEN /\ gitQueries > 0
                   /\ \E i \in 1..Len(range) :
                         /\ OneSeparatorAt(range, i)
                         /\ parts = <<SubSeq(range, 1, i - 1),
                                      SubSeq(range, i + 2, Len(range))>>
                   /\ \A i \in 1..Len(printed) : printed[i].text # <<"usage">>
              ELSE /\ pc = "exited"
                   /\ exitCode = 1
                   /\ printed[Len(printed)] = [kind |-> "error", text |-> <<"usage">>]
                   /\ gitQueries = 0
                   /\ spinner = "none"
                   /\ parts = <<>>

C10_Witness ==
    /\ cmd = "recap"
    /\ range = <<"a", ".", ".", "b", ".", ".", "a">>
    /\ pc = "exited"
    /\ exitCode = 1
    /\ gitQueries = 0

C10_WitnessAccepted ==
    /\ cmd = "recap"
    /\ range = <<"a", ".", ".", "b">>
    /\ parts = << <<"a">>, <<"b">> >>
    /\ pc = "done"

\* the commands that read git
GitCommands == Commands \cup {"status"}

\* the command got as far as its reader calls
ReadersIssued ==
    /\ cmd \in GitCommands
    /\ pc \notin {"start", "probed"}
    /\ cmd = "recap" => ~RangeRefused(Split(range, DotDot))

\* C11 (as stated): outside a git work tree, a command that reads git
\* produces no output but the not-a-git-repository message, and exits with a
\* non-zero status.
C11_NothingPrintedButTheError ==
    (ReadersIssued /\ ~repo.isRepo /\ pc = "exited") =>
        /\ printed = <<[kind |-> "error", text |-> <<NotARepoMessage>>]>>
        /\ exitCode > 0

\* C11 (amended): outside a git work tree, a command that reads git (recap:
\* with a well-formed range) ends with the not-a-git-repository message as
\* its last output and exit status 1; before it the banner and, except in
\* status, the Copilot status line were printed, and nothing else: no
\* header, commit, summary or export.
C11_NotARepoErrorAfterBanner ==
    (ReadersIssued /\ ~repo.isRepo) =>
        /\ pc \in {"reading", "exited"}
        /\ settled = {}
        /\ commits = <<>> /\ aiSummary = <<>> /\ exported = <<>>
        /\ pc = "reading" => exitCode = -1
        /\ pc = "exited" =>
              /\ exitCode = 1
              /\ spinner # "spinning"
              /\ printed =
                    <<[kind |-> "banner", text |-> <<>>]>>
                    \o (IF cmd = "status" THEN <<>>
                        ELSE <<[kind |-> "copilotStatus", text |-> <<>>]>>)
                    \o <<[kind |-> "error", text |-> <<NotARepoMessage>>]>>

C11_Witness ==
    /\ cmd = "standup"
    /\ ~repo.isRepo
    /\ pc = "exited"
    /\ exitCode = 1
    /\ Len(printed) = 3
    /\ printed[3].text = <<NotARepoMessage>>

\* C13 (as stated): in each of the seven commands an exception is caught
\* and reported as a one-line error with exit status 1, never as a stack
\* trace, and a command that completes ends with exit status 0.
C13_EveryExceptionCaughtAndReported ==
    cmd \in AllCommands =>
        /\ pc = "exited" =>
              /\ exitCode = 1
              /\ printed[Len(printed)].kind = "error"
        /\ pc = "done" => (exitCode = 0 /\ ~HasPrinted("error"))
        /\ ~HasPrinted("uncaught")

\* the reader call that is rejected first when the calls settle in the
\* order of the Promise.all array
FirstRejectedInArrayOrder ==
    LET rejected == {i \in 1..Len(Readers(cmd)) :
                        QueryOutcome(repo, Readers(cmd)[i]).raised}
    IN Readers(cmd)[CHOOSE i \in rejected : \A j \in rejected : i <= j]

\* C14 (as stated): the printed output and the exit status do not depend on
\* the order in which the parallel reader calls settle, also when more than
\* one of them fails: a failed read prints what the run that settles the
\* calls in array order prints.
C14_OutputSameForEveryCompletionOrder ==
    (/\ ReadersIssued
     /\ pc = "exited"
     /\ \E q \in ReadersOf(cmd) : QueryOutcome(repo, q).raised) =>
        /\ exitCode = 1
        /\ printed[Len(printed)] =
              [kind |-> "error",
               text |-> <<QueryOutcome(repo, FirstRejectedInArrayOrder).message>>]

\* what does hold: when all rejected calls carry the same message (as outside
\* a repository), every completion order prints the same
SameOutputWhenFailuresAgree ==
    (/\ ReadersIssued
     /\ pc = "exited"
     /\ \E q \in ReadersOf(cmd) : QueryOutcome(repo, q).raised
     /\ Cardinality({QueryOutcome(repo, q).message : q \in ReadersOf(cmd)} \ {""}) = 1) =>
        /\ exitCode = 1
        /\ printed[Len(printed)] =
              [kind |-> "error",
               text |-> <<QueryOutcome(repo, FirstRejectedInArrayOrder).message>>]

\* what does hold: the six commands other than init catch and report
CaughtInAllButInit == cmd # "init" => C13_EveryExceptionCaughtAndReported

\* C15: with --no-ai the commands today, standup, week, release and recap
\* invoke neither a generation operation nor localSummarize; no prompt goes
\* to the CLI and no AI spinner starts; the commits are listed but no summary
\* is printed; the summary of every exported document is the empty string.
C15_NoAiMeansNoSummary ==
    (cmd \in Commands /\ ~options.ai) =>
        /\ \A i \in 1..Len(invoked) :
              invoked[i] \in {"loadConfig", "isCopilotCliAvailable"}
        /\ \A i \in 1..Len(execCalls) : execCalls[i] # "prompt"
        /\ aiSpinner = "none"
        /\ aiSummary = <<>>
        /\ ~HasPrinted("summary")
        /\ ~HasPrinted("aiSummary")
        /\ \A i \in 1..Len(exported) : exported[i].summary = <<>>
        /\ pc \in {"summarize", "export"} => HasPrinted("commits")
        /\ (pc = "done" /\ CommitsRead # <<>>) =>
              /\ HasPrinted("commits")
              /\ Len(exported) = (IF options.output THEN 1 ELSE 0)
                                 + (IF options.json THEN 1 ELSE 0)

C15_Witness ==
    /\ cmd = "week"
    /\ ~options.ai
    /\ copilotAvailable
    /\ config.useCopilot
    /\ pc = "done"
    /\ Len(commits) = 2
    /\ Len(exported) = 2
    /\ exported[1].hasSummary
    /\ exported[1].summary = <<>>

\* how many items of the sequence s are in the set S
CountIn(s, S) == Cardinality({i \in 1..Len(s) : s[i] \in S})

GenerationNames ==
    {"generateDailySummary", "generateStandupReport", "generateWeeklySummary",
     "generateReleaseNotes", "generateRangeSummary"}

\* C18: in a command execution a generation operation is invoked at most
\* once and at most one prompt goes to the CLI (no retry, also after an empty
\* or failed generation); when one is invoked, --no-ai was not given, the
\* probe had returned true and config.useCopilot is true; loadConfig and the
\* probe are invoked at most once each.
C18_GenerationAtMostOnceWhenEnabled ==
    cmd \in AllCommands =>
        /\ CountIn(invoked, GenerationNames) <= 1
        /\ CountIn(execCalls, {"prompt"}) <= 1
        /\ CountIn(invoked, {"loadConfig"}) <= 1
        /\ CountIn(invoked, {"isCopilotCliAvailable"}) <= 1
        /\ CountIn(execCalls, {"version"}) <= 1
        /\ \A i \in 1..Len(invoked) :
              invoked[i] \in GenerationNames =>
                 /\ options.ai
                 /\ copilotAvailable
                 /\ config.useCopilot
                 /\ \E j \in 1..(i - 1) : invoked[j] = "isCopilotCliAvailable"
                 /\ \E j \in 1..(i - 1) : invoked[j] = "loadConfig"
        /\ CountIn(execCalls, {"prompt"}) = 1 => CountIn(invoked, GenerationNames) = 1

C18_Witness ==
    /\ cmd = "release"
    /\ pc = "done"
    /\ invoked = <<"loadConfig", "isCopilotCliAvailable", "generateReleaseNotes",
                   "localSummarize">>
    /\ proc.outcome = "timeout"
    /\ CountIn(execCalls, {"prompt"}) = 1

\* C19: when a command has returned or the process has exited, no spinner
\* is spinning: the git-reading spinner, started with the reader calls, and
\* the AI spinner, started with the generation, have both been stopped, on
\* the success path, on the 'no commits' return and on the failure paths.
C19_SpinnersStoppedAtTheEnd ==
    (cmd \in AllCommands /\ pc \in {"done", "exited"}) =>
        /\ spinner # "spinning"
        /\ aiSpinner # "spinning"
        /\ (cmd \in Commands /\ gitQueries > 0) => spinner = "stopped"
        /\ CountIn(invoked, GenerationNames) > 0 => aiSpinner = "stopped"

C19_Witness ==
    /\ cmd = "today"
    /\ pc = "exited"
    /\ printed[Len(printed)] = [kind |-> "error", text |-> <<"write">>]
    /\ CountIn(invoked, GenerationNames) = 1
    /\ spinner = "stopped"
    /\ aiSpinner = "stopped"

C19_WitnessReadFailure ==
    /\ cmd = "week"
    /\ pc = "exited"
    /\ repo.failing = {"getCurrentBranch"}
    /\ settled = {"getAuthorName"}
    /\ spinner = "stopped"
    /\ aiSpinner = "none"

---------------------------------------------------------------------------
(* Claims on the sanitizer applied to its own result *)

\* C21: cleanCopilotOutput is idempotent: the sanitized text of every output
\* is returned unchanged when it is sanitized again,
\* cleanCopilotOutput(cleanCopilotOutput(s)) = cleanCopilotOutput(s).
C21_CleanIsIdempotent ==
    (pc = "returned" /\ call = "ask" /\ ~raised) =>
        CleanCopilotOutput(result) = result

\* the sanitizer is idempotent on the outputs that hold no ESC character
IdempotentWithoutEscape ==
    (pc = "returned" /\ call = "ask" /\ ~raised
        /\ \A i \in 1..Len(proc.stdout) : proc.stdout[i] # "ESC") =>
        CleanCopilotOutput(result) = result

\* a carriage return inside an escape sequence hides it from the first pass
SplitEscapeSurvivesOnePass ==
    /\ pc = "returned"
    /\ call = "ask"
    /\ proc.stdout = <<"ESC", "[", "\r", "m">>
    /\ result = <<"ESC", "[", "m">>
    /\ CleanCopilotOutput(result) = <<>>

---------------------------------------------------------------------------
(* Claims on the init command *)

\* C22: a run of init that finds anything at .devlogrc of the working
\* directory leaves every file as it is and prints the warning and nothing
\* else; a run that finds nothing there and whose write is accepted leaves
\* .devlogrc holding the sample configuration and no other file changed; and
\* a run of init after a run that ended normally changes no file, so init
\* run twice leaves the files init run once has left.
C22_InitNeverOverwrites ==
    [][(cmd = "init" /\ pc = "start" /\ pc' # "start") =>
          /\ files["cwd/.devlogrc"].state # "missing" =>
                /\ files' = files
                /\ printed' = Append(printed, Ev("warning", <<>>))
                /\ pc' = "done"
          /\ (files["cwd/.devlogrc"].state = "missing" /\ pc' = "done") =>
                /\ files' = [files EXCEPT !["cwd/.devlogrc"] = Json(SampleConfig)]
                /\ printed' = Append(printed, Ev("info", <<>>))
          /\ (printed # <<>> /\ printed[Len(printed)].kind \in {"info", "warning"}) =>
                files' = files]_vars

\* init has created the file and, run again, has refused with the warning
C22_Witness ==
    /\ cmd = "init"
    /\ pc = "done"
    /\ Len(printed) = 2
    /\ printed[1].kind = "info"
    /\ printed[2].kind = "warning"
    /\ files["cwd/.devlogrc"] = Json(SampleConfig)

\* init has refused in a directory whose .devlogrc holds another configuration
C22_WitnessExisting ==
    /\ cmd = "init"
    /\ pc = "done"
    /\ printed = <<Ev("warning", <<>>)>>
    /\ files["cwd/.devlogrc"] = Json([useCopilot |-> FALSE])

====
